---- MODULE Spec2Model ----
(***************************************************************************)
(* Model of src/mcp_playwright/main.py: PlaywrightBrowserManager, the      *)
(* browser monitor behind the MCP tools open_browser, get_console_logs,    *)
(* get_network_requests, close_browser and configure_network_capture.      *)
(*                                                                         *)
(* Everything runs on one asyncio event loop.  A coroutine runs without    *)
(* interruption from one await of a browser-engine call to the next, so    *)
(* every action below is one such uninterrupted stretch of a coroutine, or *)
(* one synchronous listener callback.  Engine calls are served in the      *)
(* order in which they are issued: the effect on the engine (a page is     *)
(* created, a browser is closed) is modelled at the call, the caller       *)
(* resumes in a later step.                                                *)
(***************************************************************************)
EXTENDS Integers, Sequences, FiniteSets, TLC

VARIABLES
    playwright,             \* self.playwright (0 is None)
    browser,                \* self.browser (0 is None)
    page,                   \* self.page (0 is None)
    is_initialized,         \* self.is_initialized
    console_logs,           \* self.console_logs
    network_requests,       \* self.network_requests
    request_capture_config, \* self.request_capture_config
    clock,                  \* asyncio.get_event_loop().time()
    nEngines,               \* engine: Playwright instances started so far
    pwLive,                 \* engine: Playwright instances not stopped
    brLive,                 \* engine: browsers launched and not closed
    pageBrowser,            \* engine: the browser of every page ever created
    pgOpen,                 \* engine: pages not closed
    listening,              \* engine: pages with the three listeners registered
    pc,                     \* where every tool call is suspended
    loc,                    \* the locals of every suspended tool call
    ret,                    \* what the step into this state returned, if it returned
    quiet                   \* a close() has returned and no page was created since

vars == <<playwright, browser, page, is_initialized, console_logs,
          network_requests, request_capture_config, clock, nEngines, pwLive,
          brLive, pageBrowser, pgOpen, listening, pc, loc, ret, quiet>>

managerVars == <<playwright, browser, page, is_initialized>>
engineVars == <<nEngines, pwLive, brLive, pageBrowser, pgOpen, listening>>

----------------------------------------------------------------------------
(* Bounds of the model.                                                    *)

MaxStore == 2       \* captured requests per store in the capture model
MaxTime == 1        \* readings of the loop clock
MaxLogs == 3        \* console entries drawn for the deduplication model
MaxLifeStore == 1   \* captured entries per buffer in the lifecycle model
MaxEngines == 2     \* Playwright instances started in one run
MaxPages == 2       \* pages created in one run

None == 0

Openers == {"o1", "o2"}     \* concurrent open_browser calls
Closers == {"c1"}           \* concurrent close_browser calls
Readers == {"r1"}           \* concurrent get_network_requests calls
ConcurrentReaders == {"r1", "r2"}   \* the same, where retrievals overlap
Tasks == Openers \cup Closers \cup Readers \cup ConcurrentReaders

Urls == {"u1", "u2"}
Statuses == {200, 404}
ResourceTypes == {"document", "script"}
LogTypes == {"info", "warn"}

----------------------------------------------------------------------------
(* Sorting and slicing as Python does them.                                *)

Min2(a, b) == IF a < b THEN a ELSE b
Max2(a, b) == IF a > b THEN a ELSE b

\* seq[:n]: the first n elements, and for a negative n all but the last -n.
Take(s, n) ==
    IF n >= 0 THEN SubSeq(s, 1, Min2(n, Len(s)))
    ELSE SubSeq(s, 1, Max2(Len(s) + n, 0))

InsertAsc(s, x) ==
    LET k == Cardinality({i \in 1..Len(s) : s[i].timestamp <= x.timestamp})
    IN SubSeq(s, 1, k) \o <<x>> \o SubSeq(s, k + 1, Len(s))

InsertDesc(s, x) ==
    LET k == Cardinality({i \in 1..Len(s) : s[i].timestamp >= x.timestamp})
    IN SubSeq(s, 1, k) \o <<x>> \o SubSeq(s, k + 1, Len(s))

RECURSIVE SortAsc(_)
\* sorted(s, key=timestamp): stable, ties keep their order in s.
SortAsc(s) ==
    IF s = <<>> THEN <<>>
    ELSE InsertAsc(SortAsc(SubSeq(s, 1, Len(s) - 1)), s[Len(s)])

RECURSIVE SortDesc(_)
\* sorted(s, key=timestamp, reverse=True): stable as well.
SortDesc(s) ==
    IF s = <<>> THEN <<>>
    ELSE InsertDesc(SortDesc(SubSeq(s, 1, Len(s) - 1)), s[Len(s)])

\* A truncation that slices the list in ascending order.
FirstN(s, last_n) == SortAsc(Take(SortAsc(s), last_n))

\* The three lines "sort descending, slice [:last_n], sort ascending".
LastN(s, last_n) == SortAsc(Take(SortDesc(s), last_n))

----------------------------------------------------------------------------
(* The capture configuration and the capture filter.                       *)
(* A list of types is modelled by the set of its members.  A URL pattern   *)
(* is any string; it is modelled by what re.search does with it: ok tells  *)
(* whether it compiles (re.search raises re.error if not) and urls is the  *)
(* set of URLs in which it finds a match.                                  *)

DefaultConfig ==
    [enabled |-> TRUE, include_patterns |-> <<>>, exclude_patterns |-> <<>>,
     include_types |-> {}, exclude_types |-> {},
     capture_post_data |-> TRUE, capture_response_body |-> TRUE]

\* An update that replaces the configuration: keys not supplied fall back
\* to their defaults.
replace_request_capture(config, config_updates) ==
    [k \in DOMAIN config |->
        IF k \in DOMAIN config_updates THEN config_updates[k] ELSE DefaultConfig[k]]

\* dict.update: the supplied keys take the supplied values.
configure_request_capture(config, config_updates) ==
    [k \in DOMAIN config |->
        IF k \in DOMAIN config_updates THEN config_updates[k] ELSE config[k]]

RECURSIVE search_patterns(_, _, _)
\* "for pattern in patterns: if re.search(pattern, url): ..." from the k-th
\* pattern on: "True" if the loop reaches a pattern that matches, "raise" if
\* it reaches one that does not compile first, "False" if it runs to the end.
search_patterns(patterns, url, k) ==
    IF k > Len(patterns) THEN "False"
    ELSE IF ~patterns[k].ok THEN "raise"
    ELSE IF url \in patterns[k].urls THEN "True"
    ELSE search_patterns(patterns, url, k + 1)

\* _should_capture_request: "True", "False", or "raise" if it raises.
should_capture_request(request, config) ==
    IF ~config.enabled THEN "False"
    ELSE IF config.include_types # {}
            /\ request.resource_type \notin config.include_types THEN "False"
    ELSE IF request.resource_type \in config.exclude_types THEN "False"
    ELSE IF config.include_patterns # <<>>
            /\ search_patterns(config.include_patterns, request.url, 1) # "True"
         THEN search_patterns(config.include_patterns, request.url, 1)
    ELSE IF search_patterns(config.exclude_patterns, request.url, 1) = "True"
         THEN "False"
    ELSE IF search_patterns(config.exclude_patterns, request.url, 1) = "raise"
         THEN "raise"
    ELSE "True"

----------------------------------------------------------------------------
(* Entries of the request store.  A key that a Python dict lacks is FALSE  *)
(* (a flag) or "none" here.  The field page is not in the code: it records *)
(* the page whose listener made the entry.                                 *)

NoResponse ==
    [present |-> FALSE, status |-> 0, timestamp |-> 0, error |-> FALSE,
     is_json |-> FALSE, response_obj |-> FALSE,
     body |-> FALSE, bodyText |-> FALSE, body_error |-> FALSE]

\* The entry _handle_request appends; request.bad is an event whose
\* attributes raise inside the try block, which leaves the degraded record.
RequestEntry(request, now, p) ==
    [url |-> request.url,
     timestamp |-> now,
     resourceType |-> IF request.bad THEN "none" ELSE request.resource_type,
     error |-> request.bad,
     page |-> p,
     response |-> NoResponse]

\* response_data of _handle_response; the handle _response_obj is kept only
\* for a JSON response and only if capture_response_body is on.
ResponseData(response, now, config) ==
    IF response.bad
    THEN [NoResponse EXCEPT !.present = TRUE, !.status = response.status,
                            !.timestamp = now, !.error = TRUE]
    ELSE [NoResponse EXCEPT !.present = TRUE, !.status = response.status,
                            !.timestamp = now,
                            !.is_json = config.capture_response_body /\ response.json,
                            !.response_obj = config.capture_response_body /\ response.json]

\* A correlator that takes the latest entry without a response.
LastUnmatched(store, url) ==
    LET open == {i \in 1..Len(store) :
                    store[i].url = url /\ ~store[i].response.present}
    IN IF open = {} THEN 0 ELSE CHOOSE i \in open : \A j \in open : i >= j

\* A correlator that does not test whether the entry has a response.
FirstWithUrl(store, url) ==
    LET same == {i \in 1..Len(store) : store[i].url = url}
    IN IF same = {} THEN 0 ELSE CHOOSE i \in same : \A j \in same : i <= j

\* The entry the two loops of _handle_response stop at: the first one with
\* this URL and no response; 0 if there is none.
FirstUnmatched(store, url) ==
    LET open == {i \in 1..Len(store) :
                    store[i].url = url /\ ~store[i].response.present}
    IN IF open = {} THEN 0 ELSE CHOOSE i \in open : \A j \in open : i <= j

\* A correlator that keeps a response without request as an entry of its own.
AttachOrBuffer(store, response, now, config) ==
    LET open == {i \in 1..Len(store) :
                    store[i].url = response.url /\ ~store[i].response.present}
    IN IF open = {}
       THEN Append(store,
                [url |-> response.url, timestamp |-> now, resourceType |-> "none",
                 error |-> FALSE, page |-> None,
                 response |-> ResponseData(response, now, config)])
       ELSE [store EXCEPT ![CHOOSE i \in open : \A j \in open : i <= j].response =
                            ResponseData(response, now, config)]

AttachResponse(store, response, now, config) ==
    LET i == FirstUnmatched(store, response.url)
    IN IF i = 0 THEN store
       ELSE [store EXCEPT ![i].response = ResponseData(response, now, config)]

----------------------------------------------------------------------------
(* _process_json_responses and the copy loop of get_network_requests.      *)

Pending(entry) ==
    entry.response.present /\ entry.response.is_json /\ entry.response.response_obj

\* The next entry, from index from on, whose body the loop fetches; 0 if the
\* loop runs to the end of the list.
NextPending(lst, from) ==
    LET todo == {i \in from..Len(lst) : Pending(lst[i])}
    IN IF todo = {} THEN 0 ELSE CHOOSE i \in todo : \A j \in todo : i <= j

\* A loop body that logs a failed fetch and leaves no trace of it.
ResolveBodySilently(lst, i, outcome) ==
    [lst EXCEPT ![i].response =
        [@ EXCEPT !.body = IF outcome = "json" THEN TRUE ELSE @,
                  !.bodyText = IF outcome = "text" THEN TRUE ELSE @,
                  !.is_json = FALSE,
                  !.response_obj = FALSE]]

\* What the loop body does to entry i once text() has returned or raised:
\* outcome is "json" (parsed), "text" (JSONDecodeError) or "fail" (raised).
ResolveBody(lst, i, outcome) ==
    [lst EXCEPT ![i].response =
        [@ EXCEPT !.body = IF outcome = "json" THEN TRUE ELSE @,
                  !.bodyText = IF outcome = "text" THEN TRUE ELSE @,
                  !.body_error = IF outcome = "fail" THEN TRUE ELSE @,
                  !.is_json = FALSE,
                  !.response_obj = FALSE]]

\* A copy of the whole response dict.
WholeResponse(response) == response

\* clean_response: the allow-listed keys of a response.
CleanResponse(response) ==
    [response EXCEPT !.error = FALSE, !.is_json = FALSE,
                     !.response_obj = FALSE, !.body_error = FALSE]

\* clean_req: the allow-listed keys of an entry.
CleanRequest(entry) ==
    [entry EXCEPT !.error = FALSE,
                  !.response = IF entry.response.present
                               THEN CleanResponse(entry.response)
                               ELSE NoResponse]

CleanRequests(store) == [i \in 1..Len(store) |-> CleanRequest(store[i])]

\* What get_network_requests returns once the bodies are resolved.
Snapshot(store, last_n) == LastN(CleanRequests(store), last_n)

----------------------------------------------------------------------------
(* Deduplication in get_console_logs.  A text is its characters (base)     *)
(* followed by the repeat suffixes appended to it: Format(text, n) is the  *)
(* f-string text + " (重复 n 次)".  The field page of a group, like that of  *)
(* an entry, is not in the code: it is the page of the group's first entry.*)

PlainText(base) == [base |-> base, reps |-> <<>>]

Format(text, count) == [text EXCEPT !.reps = Append(@, count)]

\* A pass that counts a repeat without recording when it arrived.
GroupStepKeepsFirstTimestamp(groups, log) ==
    LET current_group == groups[Len(groups)]
    IN IF groups = <<>>
          \/ log.type # current_group.type
          \/ log.text # current_group.text
       THEN Append(groups,
                   [type |-> log.type, text |-> log.text,
                    timestamp |-> log.timestamp, count |-> 1,
                    timestamps |-> <<log.timestamp>>, page |-> log.page])
       ELSE [groups EXCEPT ![Len(groups)] =
                [@ EXCEPT !.count = @ + 1,
                          !.text = Format(log.text, current_group.count + 1)]]

\* One pass of the loop over sorted_logs; current_group is the last group.
GroupStep(groups, log) ==
    LET current_group == groups[Len(groups)]
    IN IF groups = <<>>
          \/ log.type # current_group.type
          \/ log.text # current_group.text
       THEN Append(groups,
                   [type |-> log.type, text |-> log.text,
                    timestamp |-> log.timestamp, count |-> 1,
                    timestamps |-> <<log.timestamp>>, page |-> log.page])
       ELSE [groups EXCEPT ![Len(groups)] =
                [@ EXCEPT !.count = @ + 1,
                          !.timestamps = Append(@, log.timestamp),
                          !.text = Format(log.text, current_group.count + 1)]]

RECURSIVE Deduplicate(_)
Deduplicate(sorted_logs) ==
    IF sorted_logs = <<>> THEN <<>>
    ELSE GroupStep(Deduplicate(SubSeq(sorted_logs, 1, Len(sorted_logs) - 1)),
                   sorted_logs[Len(sorted_logs)])

\* What get_console_logs(last_n) returns.
DeduplicatedLogs(logs, last_n) ==
    IF logs = <<>> THEN <<>>
    ELSE LastN(Deduplicate(SortAsc(logs)), last_n)

----------------------------------------------------------------------------
(* State after PlaywrightBrowserManager() and before any tool call.        *)

LocInit ==
    [h |-> None,            \* the handle the awaited engine call is about
     i |-> 0,               \* _process_json_responses: index of the entry fetched
     last_n |-> 0,          \* get_network_requests: its argument
     detached |-> FALSE,    \* the list iterated is no longer self.network_requests
     orphan |-> <<>>,       \* that list, once detached
     failed |-> {},         \* the entries whose body fetch has failed in this call
     todo |-> {},           \* the entries that had a body to fetch when it was called
     calls |-> FALSE,       \* close: it has made a teardown call
     idle |-> FALSE,        \* close: nothing was open when it was called
     again |-> FALSE]       \* close: called right after a close() returned

\* ret tells what the last step was: op is the tool whose call returned in
\* it, "message", "request" or "response" for a call of a listener, "none"
\* for any other step.
\* Of a retrieval, last_n is its argument, val what it returned and quiet the
\* value of quiet then; of a listener, url and resource_type are those of
\* the event and raised tells whether the callback raised; of
\* a close(), calls tells whether it made a teardown call, idle whether
\* nothing was open when it was called and again whether it was called
\* right after a close() had returned; of configure_network_capture,
\* updates is its argument and config what it returned; of
\* get_network_capture_config, config is what it returned; of
\* get_network_requests, failed is the set of the entries whose body fetch
\* failed during the call and todo the set of those that had a body to
\* fetch when it was called.
NoRet ==
    [op |-> "none", last_n |-> 0, val |-> <<>>, quiet |-> FALSE,
     url |-> "none", calls |-> FALSE, idle |-> FALSE, again |-> FALSE,
     resource_type |-> "none", raised |-> FALSE,
     updates |-> <<>>, config |-> <<>>, failed |-> {}, todo |-> {}]

Init ==
    /\ playwright = None
    /\ browser = None
    /\ page = None
    /\ is_initialized = FALSE
    /\ console_logs = <<>>
    /\ network_requests = <<>>
    /\ request_capture_config = DefaultConfig
    /\ clock = 0
    /\ nEngines = 0
    /\ pwLive = {}
    /\ brLive = {}
    /\ pageBrowser = <<>>
    /\ pgOpen = {}
    /\ listening = {}
    /\ pc = [t \in Tasks |-> "idle"]
    /\ loc = [t \in Tasks |-> LocInit]
    /\ ret = NoRet
    /\ quiet = FALSE

----------------------------------------------------------------------------
(* The event loop's clock and the listener callbacks.                      *)

Tick ==
    /\ clock < MaxTime
    /\ clock' = clock + 1
    /\ UNCHANGED <<managerVars, console_logs, network_requests,
                   request_capture_config, engineVars, pc, loc, quiet>>
    /\ ret' = NoRet

\* A page delivers events while it is open and its listeners are registered.
Emits(p) == p \in pgOpen /\ p \in listening

\* _handle_console_message, called by page p.
HandleConsoleMessage(p, type, text) ==
    /\ Emits(p)
    /\ console_logs' = Append(console_logs,
            [type |-> type, text |-> text, timestamp |-> clock, page |-> p])
    /\ UNCHANGED <<managerVars, network_requests, request_capture_config, clock,
                   engineVars, pc, loc, quiet>>
    /\ ret' = [NoRet EXCEPT !.op = "message"]

\* _handle_request, called by page p: it raises if the filter raises, which
\* is called outside the try block.
HandleRequest(p, request) ==
    /\ Emits(p)
    /\ network_requests' =
            IF should_capture_request(request, request_capture_config) = "True"
            THEN Append(network_requests, RequestEntry(request, clock, p))
            ELSE network_requests
    /\ UNCHANGED <<managerVars, console_logs, request_capture_config, clock,
                   engineVars, pc, loc, quiet>>
    /\ ret' = [NoRet EXCEPT
                  !.op = "request", !.url = request.url,
                  !.resource_type = request.resource_type,
                  !.raised = should_capture_request(request, request_capture_config)
                                = "raise"]

\* _handle_response, called by page p.
HandleResponse(p, response) ==
    /\ Emits(p)
    /\ network_requests' =
            AttachResponse(network_requests, response, clock, request_capture_config)
    /\ ret' = [NoRet EXCEPT !.op = "response", !.url = response.url]
    /\ UNCHANGED <<managerVars, console_logs, request_capture_config, clock,
                   engineVars, pc, loc, quiet>>

\* The tool configure_network_capture: config_updates holds the arguments
\* that are not None; it returns the dict that is the configuration.
ConfigureNetworkCapture(config_updates) ==
    /\ request_capture_config' =
            configure_request_capture(request_capture_config, config_updates)
    /\ UNCHANGED <<managerVars, console_logs, network_requests, clock,
                   engineVars, pc, loc, quiet>>
    /\ ret' = [NoRet EXCEPT
                  !.op = "configure", !.updates = config_updates,
                  !.config = configure_request_capture(request_capture_config,
                                                       config_updates)]

\* The tool get_network_capture_config: a copy of the configuration.
GetNetworkCaptureConfig ==
    /\ ret' = [NoRet EXCEPT !.op = "getconfig", !.config = request_capture_config]
    /\ UNCHANGED <<managerVars, console_logs, network_requests,
                   request_capture_config, clock, engineVars, pc, loc, quiet>>

----------------------------------------------------------------------------
(* get_console_logs and get_network_requests.                              *)

Returned(op, last_n, val) ==
    [NoRet EXCEPT !.op = op, !.last_n = last_n, !.val = val, !.quiet = quiet]

\* get_console_logs has no await: it runs in one step.
GetConsoleLogs(last_n) ==
    /\ ret' = Returned("console", last_n, DeduplicatedLogs(console_logs, last_n))
    /\ UNCHANGED <<managerVars, console_logs, network_requests,
                   request_capture_config, clock, engineVars, pc, loc, quiet>>

\* The readers whose loop runs over the list that is self.network_requests
\* now: an assignment of a new list leaves them with the old one.
Detach(l) ==
    [t \in Tasks |->
        IF pc[t] = "fetch" /\ ~l[t].detached
        THEN [l[t] EXCEPT !.detached = TRUE, !.orphan = network_requests]
        ELSE l[t]]

\* get_network_requests up to its first await: an empty store returns at
\* once, otherwise the loop of _process_json_responses runs to the first
\* pending body and awaits text(), or finds none and the call returns.
GetNetworkRequests_Start(t, last_n) ==
    /\ pc[t] = "idle"
    /\ LET i == NextPending(network_requests, 1)
       IN IF network_requests # <<>> /\ i # 0
          THEN /\ pc' = [pc EXCEPT ![t] = "fetch"]
               /\ loc' = [loc EXCEPT ![t] =
                              [LocInit EXCEPT
                                  !.i = i, !.last_n = last_n,
                                  !.todo = {j \in 1..Len(network_requests) :
                                               Pending(network_requests[j])}]]
               /\ ret' = NoRet
          ELSE /\ ret' = Returned("net", last_n, Snapshot(network_requests, last_n))
               /\ UNCHANGED <<pc, loc>>
    /\ UNCHANGED <<managerVars, console_logs, network_requests,
                   request_capture_config, clock, engineVars, quiet>>

\* text() returns or raises: the loop body finishes entry i and the loop goes
\* on to the next pending body, or ends and the call copies, sorts, returns.
GetNetworkRequests_Fetched(t, outcome) ==
    /\ pc[t] = "fetch"
    /\ LET lst == IF loc[t].detached THEN loc[t].orphan ELSE network_requests
           done == ResolveBody(lst, loc[t].i, outcome)
           store == IF loc[t].detached THEN network_requests ELSE done
           i == NextPending(done, loc[t].i + 1)
           failed == IF outcome = "fail" THEN loc[t].failed \cup {loc[t].i}
                     ELSE loc[t].failed
       IN /\ network_requests' = store
          /\ IF i # 0
             THEN /\ pc' = pc
                  /\ loc' = [loc EXCEPT ![t].i = i,
                                        ![t].orphan = IF loc[t].detached THEN done ELSE <<>>,
                                        ![t].failed = failed]
                  /\ ret' = NoRet
             ELSE /\ pc' = [pc EXCEPT ![t] = "idle"]
                  /\ loc' = [loc EXCEPT ![t] = LocInit]
                  /\ ret' = [Returned("net", loc[t].last_n,
                                      Snapshot(store, loc[t].last_n))
                                EXCEPT !.failed = failed, !.todo = loc[t].todo]
    /\ UNCHANGED <<managerVars, console_logs, request_capture_config, clock,
                   engineVars, quiet>>

----------------------------------------------------------------------------
(* open_url, with initialize inlined at its only call.                     *)

PagesOf(b) == {p \in DOMAIN pageBrowser : pageBrowser[p] = b}

Idle(l, t) == [l EXCEPT ![t] = LocInit]

\* open_url from "if self.page" (stage 1) or from "self.console_logs = []"
\* (stage 2) to its next await, with br the value of self.browser.  With a
\* page held it awaits page.close().  Otherwise it assigns two new lists and
\* awaits self.browser.new_page(), which raises at once if self.browser is
\* None or closed.
OpenContinue(t, stage, br) ==
    IF stage = 1 /\ page # None
    THEN /\ pgOpen' = pgOpen \ {page}
         /\ pc' = [pc EXCEPT ![t] = "close_old"]
         /\ loc' = Idle(loc, t)
         /\ UNCHANGED <<console_logs, network_requests, pageBrowser, quiet>>
    ELSE /\ console_logs' = <<>>
         /\ network_requests' = <<>>
         /\ IF br # None /\ br \in brLive
            THEN /\ pageBrowser' = Append(pageBrowser, br)
                 /\ pgOpen' = pgOpen \cup {Len(pageBrowser) + 1}
                 /\ pc' = [pc EXCEPT ![t] = "new_page"]
                 /\ loc' = [Detach(loc) EXCEPT
                                ![t] = [LocInit EXCEPT !.h = Len(pageBrowser) + 1]]
                 /\ quiet' = FALSE
            ELSE /\ pc' = [pc EXCEPT ![t] = "idle"]
                 /\ loc' = Idle(Detach(loc), t)
                 /\ UNCHANGED <<pageBrowser, pgOpen, quiet>>

\* The open_url calls that have still to create their page.
Opening == {t \in Openers : pc[t] \in {"start", "launch", "close_old"}}

\* open_url is called.  Not initialized: initialize() awaits
\* async_playwright().start().  Initialized: on to the page.
OpenUrl_Start(t) ==
    /\ pc[t] = "idle"
    /\ Len(pageBrowser) + Cardinality(Opening) < MaxPages
    /\ IF ~is_initialized
       THEN /\ nEngines < MaxEngines
            /\ nEngines' = nEngines + 1
            /\ pwLive' = pwLive \cup {nEngines + 1}
            /\ pc' = [pc EXCEPT ![t] = "start"]
            /\ loc' = [loc EXCEPT ![t] = [LocInit EXCEPT !.h = nEngines + 1]]
            /\ UNCHANGED <<console_logs, network_requests, pageBrowser, pgOpen, quiet>>
       ELSE /\ OpenContinue(t, 1, browser)
            /\ UNCHANGED <<nEngines, pwLive>>
    /\ UNCHANGED <<managerVars, request_capture_config, clock, brLive, listening>>
    /\ ret' = NoRet

\* start() has returned: self.playwright is assigned, launch() is awaited.
OpenUrl_Started(t) ==
    /\ pc[t] = "start"
    /\ playwright' = loc[t].h
    /\ brLive' = IF loc[t].h \in pwLive THEN brLive \cup {loc[t].h} ELSE brLive
    /\ pc' = [pc EXCEPT ![t] = "launch"]
    /\ UNCHANGED <<browser, page, is_initialized, console_logs, network_requests,
                   request_capture_config, clock, nEngines, pwLive, pageBrowser,
                   pgOpen, listening, loc, quiet>>
    /\ ret' = NoRet

\* launch() has returned: self.browser and is_initialized are assigned,
\* initialize returns and open_url goes on to the page.
OpenUrl_Launched(t) ==
    /\ pc[t] = "launch"
    /\ browser' = loc[t].h
    /\ is_initialized' = TRUE
    /\ OpenContinue(t, 1, loc[t].h)
    /\ UNCHANGED <<playwright, page, request_capture_config, clock, nEngines,
                   pwLive, brLive, listening>>
    /\ ret' = NoRet

\* page.close() of the previous page has returned.
OpenUrl_OldClosed(t) ==
    /\ pc[t] = "close_old"
    /\ OpenContinue(t, 2, browser)
    /\ UNCHANGED <<managerVars, request_capture_config, clock, nEngines, pwLive,
                   brLive, listening>>
    /\ ret' = NoRet

\* new_page() has returned: self.page is assigned, the three listeners are
\* registered and goto() is awaited; on a page closed meanwhile it raises.
OpenUrl_PageCreated(t) ==
    /\ pc[t] = "new_page"
    /\ page' = loc[t].h
    /\ listening' = listening \cup {loc[t].h}
    /\ pc' = [pc EXCEPT ![t] = IF loc[t].h \in pgOpen THEN "goto" ELSE "idle"]
    /\ loc' = Idle(loc, t)
    /\ UNCHANGED <<playwright, browser, is_initialized, console_logs,
                   network_requests, request_capture_config, clock, nEngines,
                   pwLive, brLive, pageBrowser, pgOpen, quiet>>
    /\ ret' = NoRet

\* goto() has returned or raised: open_url returns or raises.
OpenUrl_Navigated(t) ==
    /\ pc[t] = "goto"
    /\ pc' = [pc EXCEPT ![t] = "idle"]
    /\ UNCHANGED <<managerVars, console_logs, network_requests,
                   request_capture_config, clock, engineVars, loc, quiet>>
    /\ ret' = NoRet

\* start(), launch() or new_page() raises: open_url raises.
OpenUrl_Failed(t) ==
    /\ pc[t] \in {"start", "launch", "new_page"}
    /\ pc' = [pc EXCEPT ![t] = "idle"]
    /\ loc' = Idle(loc, t)
    /\ UNCHANGED <<managerVars, console_logs, network_requests,
                   request_capture_config, clock, engineVars, quiet>>
    /\ ret' = NoRet

----------------------------------------------------------------------------
(* close.                                                                  *)

\* A close that also puts the capture configuration back to its defaults.
CloseContinueResetsConfig(t, stage, pg, br, pw, calls, idle, again) ==
    /\ page' = pg
    /\ browser' = br
    /\ playwright' = pw
    /\ IF stage = 1 /\ pg # None
       THEN /\ pgOpen' = pgOpen \ {pg}
            /\ pc' = [pc EXCEPT ![t] = "c_page"]
            /\ loc' = [loc EXCEPT ![t] = [LocInit EXCEPT !.calls = TRUE, !.idle = idle,
                                                    !.again = again]]
            /\ UNCHANGED <<is_initialized, console_logs, network_requests,
                           pwLive, brLive, quiet>>
            /\ ret' = NoRet
       ELSE IF stage <= 2 /\ br # None
       THEN /\ brLive' = brLive \ {br}
            /\ pgOpen' = pgOpen \ PagesOf(br)
            /\ pc' = [pc EXCEPT ![t] = "c_browser"]
            /\ loc' = [loc EXCEPT ![t] = [LocInit EXCEPT !.calls = TRUE, !.idle = idle,
                                                    !.again = again]]
            /\ UNCHANGED <<is_initialized, console_logs, network_requests,
                           pwLive, quiet>>
            /\ ret' = NoRet
       ELSE IF stage <= 3 /\ pw # None
       THEN /\ pwLive' = pwLive \ {pw}
            /\ brLive' = brLive \ {pw}
            /\ pgOpen' = pgOpen \ PagesOf(pw)
            /\ pc' = [pc EXCEPT ![t] = "c_pw"]
            /\ loc' = [loc EXCEPT ![t] = [LocInit EXCEPT !.calls = TRUE, !.idle = idle,
                                                    !.again = again]]
            /\ UNCHANGED <<is_initialized, console_logs, network_requests, quiet>>
            /\ ret' = NoRet
       ELSE /\ is_initialized' = FALSE
            /\ console_logs' = <<>>
            /\ network_requests' = <<>>
            /\ pc' = [pc EXCEPT ![t] = "idle"]
            /\ loc' = Idle(Detach(loc), t)
            /\ ret' = [NoRet EXCEPT !.op = "close", !.calls = calls,
                                      !.idle = idle, !.again = again]
            /\ quiet' = TRUE
            /\ UNCHANGED <<pwLive, brLive, pgOpen>>
    /\ request_capture_config' =
          IF stage = 4 \/ (pg = None /\ br = None /\ pw = None)
          THEN DefaultConfig ELSE request_capture_config
    /\ UNCHANGED <<clock, nEngines, pageBrowser, listening>>

\* close from the check of self.page (stage 1), of self.browser (stage 2) or
\* of self.playwright (stage 3) to its next await or to its end; pg, br and
\* pw are the values of the three fields, calls tells whether this call has
\* made a teardown call, idle whether nothing was open when it was called,
\* again whether it was called right after a close() returned.
CloseContinue(t, stage, pg, br, pw, calls, idle, again) ==
    /\ page' = pg
    /\ browser' = br
    /\ playwright' = pw
    /\ IF stage = 1 /\ pg # None
       THEN /\ pgOpen' = pgOpen \ {pg}
            /\ pc' = [pc EXCEPT ![t] = "c_page"]
            /\ loc' = [loc EXCEPT ![t] = [LocInit EXCEPT !.calls = TRUE, !.idle = idle,
                                                    !.again = again]]
            /\ UNCHANGED <<is_initialized, console_logs, network_requests,
                           pwLive, brLive, quiet>>
            /\ ret' = NoRet
       ELSE IF stage <= 2 /\ br # None
       THEN /\ brLive' = brLive \ {br}
            /\ pgOpen' = pgOpen \ PagesOf(br)
            /\ pc' = [pc EXCEPT ![t] = "c_browser"]
            /\ loc' = [loc EXCEPT ![t] = [LocInit EXCEPT !.calls = TRUE, !.idle = idle,
                                                    !.again = again]]
            /\ UNCHANGED <<is_initialized, console_logs, network_requests,
                           pwLive, quiet>>
            /\ ret' = NoRet
       ELSE IF stage <= 3 /\ pw # None
       THEN /\ pwLive' = pwLive \ {pw}
            /\ brLive' = brLive \ {pw}
            /\ pgOpen' = pgOpen \ PagesOf(pw)
            /\ pc' = [pc EXCEPT ![t] = "c_pw"]
            /\ loc' = [loc EXCEPT ![t] = [LocInit EXCEPT !.calls = TRUE, !.idle = idle,
                                                    !.again = again]]
            /\ UNCHANGED <<is_initialized, console_logs, network_requests, quiet>>
            /\ ret' = NoRet
       ELSE /\ is_initialized' = FALSE
            /\ console_logs' = <<>>
            /\ network_requests' = <<>>
            /\ pc' = [pc EXCEPT ![t] = "idle"]
            /\ loc' = Idle(Detach(loc), t)
            /\ ret' = [NoRet EXCEPT !.op = "close", !.calls = calls,
                                      !.idle = idle, !.again = again]
            /\ quiet' = TRUE
            /\ UNCHANGED <<pwLive, brLive, pgOpen>>
    /\ UNCHANGED <<request_capture_config, clock, nEngines, pageBrowser,
                   listening>>

NothingOpen == page = None /\ browser = None /\ playwright = None

Close_Start(t) ==
    /\ pc[t] = "idle"
    /\ CloseContinue(t, 1, page, browser, playwright, FALSE, NothingOpen,
                     ret.op = "close")

\* A close that does not reset self.page after page.close().
Close_PageClosedNotReset(t) ==
    /\ pc[t] = "c_page"
    /\ CloseContinue(t, 2, page, browser, playwright, TRUE, loc[t].idle,
                     loc[t].again)

\* page.close() has returned.
Close_PageClosed(t) ==
    /\ pc[t] = "c_page"
    /\ CloseContinue(t, 2, None, browser, playwright, TRUE, loc[t].idle,
                     loc[t].again)

\* browser.close() has returned.
Close_BrowserClosed(t) ==
    /\ pc[t] = "c_browser"
    /\ CloseContinue(t, 3, page, None, playwright, TRUE, loc[t].idle,
                     loc[t].again)

\* playwright.stop() has returned.
Close_Stopped(t) ==
    /\ pc[t] = "c_pw"
    /\ CloseContinue(t, 4, page, browser, None, TRUE, loc[t].idle,
                     loc[t].again)

----------------------------------------------------------------------------
(* The whole server: tool calls interleaved at their awaits, with the      *)
(* events of every page that is open and listened to.                      *)

LifeRequests == [url : {"u1"}, resource_type : {"document"}, bad : BOOLEAN]
LifeResponses ==
    {r \in [url : {"u1"}, status : {200}, json : BOOLEAN, bad : BOOLEAN] :
        r.bad => ~r.json}
LifeUpdates ==
    {[capture_response_body |-> FALSE], [capture_response_body |-> TRUE]}
LastNs == {-1, 1}

Next ==
    \/ \E t \in Openers : OpenUrl_Start(t)
    \/ \E t \in Openers : OpenUrl_Started(t)
    \/ \E t \in Openers : OpenUrl_Launched(t)
    \/ \E t \in Openers : OpenUrl_OldClosed(t)
    \/ \E t \in Openers : OpenUrl_PageCreated(t)
    \/ \E t \in Openers : OpenUrl_Navigated(t)
    \/ \E t \in Openers : OpenUrl_Failed(t)
    \/ \E t \in Closers : Close_Start(t)
    \/ \E t \in Closers : Close_PageClosed(t)
    \/ \E t \in Closers : Close_BrowserClosed(t)
    \/ \E t \in Closers : Close_Stopped(t)
    \/ \E p \in DOMAIN pageBrowser :
          /\ Len(console_logs) < MaxLifeStore
          /\ HandleConsoleMessage(p, "info", PlainText("a"))
    \/ \E p \in DOMAIN pageBrowser, request \in LifeRequests :
          /\ Len(network_requests) < MaxLifeStore
          /\ HandleRequest(p, request)
    \/ \E p \in DOMAIN pageBrowser, response \in LifeResponses :
          HandleResponse(p, response)
    \/ \E config_updates \in LifeUpdates : ConfigureNetworkCapture(config_updates)
    \/ \E last_n \in {1} : GetConsoleLogs(last_n)
    \/ \E t \in Readers, last_n \in {1} : GetNetworkRequests_Start(t, last_n)
    \/ \E t \in Readers, outcome \in {"json", "fail"} :
          GetNetworkRequests_Fetched(t, outcome)

Spec == Init /\ [][Next]_vars

----------------------------------------------------------------------------
(* The capture engine alone: one page is open and listened to (the state   *)
(* in which open_url leaves a new manager), and its events interleave with *)
(* get_network_requests.                                                   *)

InitCapture ==
    /\ playwright = 1
    /\ browser = 1
    /\ page = 1
    /\ is_initialized = TRUE
    /\ console_logs = <<>>
    /\ network_requests = <<>>
    /\ request_capture_config = DefaultConfig
    /\ clock = 0
    /\ nEngines = 1
    /\ pwLive = {1}
    /\ brLive = {1}
    /\ pageBrowser = <<1>>
    /\ pgOpen = {1}
    /\ listening = {1}
    /\ pc = [t \in Tasks |-> "idle"]
    /\ loc = [t \in Tasks |-> LocInit]
    /\ ret = NoRet
    /\ quiet = FALSE

CaptureRequests == [url : Urls, resource_type : {"document"}, bad : {FALSE}]
CaptureResponses ==
    {r \in [url : Urls, status : Statuses, json : BOOLEAN, bad : {FALSE}] :
        r.json <=> r.status = 200}

NextCapture ==
    \/ Tick
    \/ \E request \in CaptureRequests :
          /\ Len(network_requests) < MaxStore
          /\ HandleRequest(page, request)
    \/ \E response \in CaptureResponses : HandleResponse(page, response)
    \/ \E t \in Readers, last_n \in LastNs : GetNetworkRequests_Start(t, last_n)
    \/ \E t \in Readers, outcome \in {"json", "text", "fail"} :
          GetNetworkRequests_Fetched(t, outcome)

SpecCapture == InitCapture /\ [][NextCapture]_vars

----------------------------------------------------------------------------
(* Deduplication alone: get_console_logs on every list of console entries  *)
(* up to MaxLogs long that one page can leave, with the clock readings in  *)
(* the order of arrival.  The texts include one that ends like a repeat    *)
(* suffix, which a page is free to log.                                    *)

LogTexts == {PlainText("a"), PlainText("b"), Format(PlainText("a"), 2)}
LogEntries == [type : LogTypes, text : LogTexts, timestamp : 0..MaxTime, page : {1}]
LogLists ==
    {s \in UNION {[1..k -> LogEntries] : k \in 0..MaxLogs} :
        \A i \in 1..Len(s), j \in 1..Len(s) :
            i < j => s[i].timestamp <= s[j].timestamp}
DedupLastNs == -1..MaxLogs

InitDedup ==
    /\ playwright = 1
    /\ browser = 1
    /\ page = 1
    /\ is_initialized = TRUE
    /\ console_logs \in LogLists
    /\ network_requests = <<>>
    /\ request_capture_config = DefaultConfig
    /\ clock = MaxTime
    /\ nEngines = 1
    /\ pwLive = {1}
    /\ brLive = {1}
    /\ pageBrowser = <<1>>
    /\ pgOpen = {1}
    /\ listening = {1}
    /\ pc = [t \in Tasks |-> "idle"]
    /\ loc = [t \in Tasks |-> LocInit]
    /\ ret = NoRet
    /\ quiet = FALSE

NextDedup == \E last_n \in DedupLastNs : GetConsoleLogs(last_n)

SpecDedup == InitDedup /\ [][NextDedup]_vars

----------------------------------------------------------------------------
(* Claims about the request store and get_network_requests (SpecCapture).  *)

Ascending(s) ==
    \A i \in 1..Len(s), j \in 1..Len(s) : i < j => s[i].timestamp <= s[j].timestamp

\* The records are in ascending order of timestamp and each is the copy of
\* an entry of the store.
SortedCopies(records) ==
    /\ Ascending(records)
    /\ \A k \in 1..Len(records) :
          \E i \in 1..Len(network_requests) :
              records[k] = CleanRequest(network_requests[i])

\* C1: whatever requests and responses were recorded and whatever integer
\* last_n is, get_network_requests(last_n) returns at most last_n records
\* (none when last_n is below 1), in ascending order of timestamp, each the
\* copy of an entry of the store.
C1_AtMostLastNRecords ==
    ret.op = "net" =>
        /\ Len(ret.val) <= Max2(ret.last_n, 0)
        /\ SortedCopies(ret.val)

\* C2: the entries of one URL get their responses in the order in which
\* they were recorded: an entry with a response is never behind an earlier
\* entry of the same URL that has none or that got its response later.
C2_FifoPerUrl ==
    \A i \in 1..Len(network_requests), j \in 1..Len(network_requests) :
        (/\ i < j
         /\ network_requests[i].url = network_requests[j].url
         /\ network_requests[j].response.present)
        => /\ network_requests[i].response.present
           /\ network_requests[i].response.timestamp
                 <= network_requests[j].response.timestamp

\* C2 witness: two requests of one URL, then two responses at different
\* times, the earlier response on the first entry.
C2_Witness ==
    /\ Len(network_requests) >= 2
    /\ network_requests[1].url = network_requests[2].url
    /\ network_requests[1].response.present
    /\ network_requests[2].response.present
    /\ network_requests[1].response.timestamp < network_requests[2].response.timestamp

NoUnmatched(store, url) ==
    ~ \E i \in 1..Len(store) : store[i].url = url /\ ~store[i].response.present

\* C3: a response event whose URL is that of no entry still without a
\* response leaves the request store as it was.
C3_UnmatchedResponseDropped ==
    [][(ret'.op = "response" /\ NoUnmatched(network_requests, ret'.url))
          => network_requests' = network_requests]_vars

\* C3 witness: _handle_response has run for a URL that no entry of a
\* non-empty store has.
C3_Witness ==
    /\ ret.op = "response"
    /\ network_requests # <<>>
    /\ \A i \in 1..Len(network_requests) : network_requests[i].url # ret.url

\* C4: an entry that has a response keeps it, with its status and its
\* timestamp, in every step that leaves the entry in the store.
C4_ResponseSetOnce ==
    [][\A i \in 1..Len(network_requests) :
          (i <= Len(network_requests') /\ network_requests[i].response.present)
          => /\ network_requests'[i].response.present
             /\ network_requests'[i].response.status
                   = network_requests[i].response.status
             /\ network_requests'[i].response.timestamp
                   = network_requests[i].response.timestamp]_vars

\* C4 witness: _handle_response has run for the URL of an entry that got
\* its response at an earlier time.
C4_Witness ==
    /\ ret.op = "response"
    /\ \E i \in 1..Len(network_requests) :
          /\ network_requests[i].url = ret.url
          /\ network_requests[i].response.present
          /\ network_requests[i].response.timestamp < clock

\* C7: no record that get_network_requests returns holds the handle of a
\* response object.
C7_NoHandleReturned ==
    ret.op = "net" =>
        \A k \in 1..Len(ret.val) : ~ret.val[k].response.response_obj

\* C7 witness: the call returns records while an entry of the store holds a
\* handle: a response that came while the call awaited a body.
C7_Witness ==
    /\ ret.op = "net"
    /\ ret.val # <<>>
    /\ \E i \in 1..Len(network_requests) : Pending(network_requests[i])


\* The positions of console_logs at which a maximal run of entries with the
\* same (type, text) starts; console_logs is in order of timestamp.
RunStarts ==
    {i \in 1..Len(console_logs) :
        \/ i = 1
        \/ console_logs[i].type # console_logs[i - 1].type
        \/ console_logs[i].text # console_logs[i - 1].text}

RunStart(k) ==
    CHOOSE i \in RunStarts : Cardinality({j \in RunStarts : j <= i}) = k

RunLength(k) ==
    (IF k = Cardinality(RunStarts) THEN Len(console_logs) + 1 ELSE RunStart(k + 1))
        - RunStart(k)

\* C5: get_console_logs with a last_n that truncates nothing returns one
\* group for every maximal run of entries with the same (type, text), in
\* order, with the length of the run as its count.
C5_RunsCollapse ==
    (ret.op = "console" /\ ret.last_n >= Len(console_logs)) =>
        /\ Len(ret.val) = Cardinality(RunStarts)
        /\ \A k \in 1..Len(ret.val) :
              k <= Cardinality(RunStarts) => ret.val[k].count = RunLength(k)

RECURSIVE CountBefore(_, _)
CountBefore(groups, k) ==
    IF k <= 1 THEN 0 ELSE CountBefore(groups, k - 1) + groups[k - 1].count

\* C6: every group returned has count >= 1; with count = 1 its text is the
\* text of the entry it stands for, with count > 1 it is the text of the
\* entry that opened the group followed by the suffix for that count.
C6_CountAndSuffix ==
    (ret.op = "console" /\ ret.last_n >= Len(console_logs)) =>
        \A k \in 1..Len(ret.val) :
            LET group == ret.val[k]
                first == console_logs[CountBefore(ret.val, k) + 1]
            IN /\ group.count >= 1
               /\ group.count = 1 => group.text = first.text
               /\ group.count > 1 => group.text = Format(first.text, group.count)

\* C8: a retrieval that returns after a close() has returned and before a new
\* page is opened returns an empty sequence.
C8_EmptyAfterClose ==
    (ret.op \in {"net", "console"} /\ ret.quiet) => ret.val = <<>>

Uninitialized ==
    /\ page = None
    /\ browser = None
    /\ playwright = None
    /\ ~is_initialized
    /\ console_logs = <<>>
    /\ network_requests = <<>>

\* C9: a close() called when nothing is open, or directly after a close()
\* has returned, makes no teardown call and leaves no page, no browser, no
\* engine handle, is_initialized false and both buffers empty.
C9_CloseIdempotent ==
    (ret.op = "close" /\ (ret.idle \/ ret.again)) =>
        ~ret.calls /\ Uninitialized

FromPage(records, p) ==
    \A k \in 1..Len(records) : records[k].page = p

\* C10: once open_url has registered the listeners on the new page, every
\* entry of the two buffers, and every record a retrieval returns, was
\* recorded from that page.
C10_OnlyCurrentPage ==
    (page # None /\ page \in listening) =>
        /\ FromPage(console_logs, page)
        /\ FromPage(network_requests, page)
        /\ ret.op \in {"net", "console"} => FromPage(ret.val, page)

\* C11: in every state, a page that is open with its listeners registered,
\* and so can deliver events to the buffers, is the page the manager holds,
\* and there is at most one such page.
C11_SingleListeningPage ==
    /\ \A p \in DOMAIN pageBrowser : Emits(p) => p = page
    /\ Cardinality({p \in DOMAIN pageBrowser : Emits(p)}) <= 1

----------------------------------------------------------------------------
(* The capture filter alone: one page is open and listened to, and its     *)
(* request events interleave with configure_network_capture and            *)
(* get_network_capture_config.                                             *)

PatU1 == [ok |-> TRUE, urls |-> {"u1"}]     \* a pattern that matches u1 only
PatBad == [ok |-> FALSE, urls |-> {}]       \* a string that is no regex: "("

FilterPatterns == {<<>>, <<PatU1>>, <<PatBad>>, <<PatU1, PatBad>>}
FilterTypes == {{}, {"document"}}

FilterUpdates ==
    {[enabled |-> b] : b \in BOOLEAN}
    \cup {[include_types |-> ts] : ts \in FilterTypes}
    \cup {[exclude_types |-> ts] : ts \in FilterTypes}
    \cup {[include_patterns |-> ps] : ps \in FilterPatterns}
    \cup {[exclude_patterns |-> ps] : ps \in FilterPatterns}
    \cup {[enabled |-> FALSE, capture_post_data |-> FALSE]}

FilterRequests == [url : Urls, resource_type : ResourceTypes, bad : {FALSE}]

NextFilter ==
    \/ \E config_updates \in FilterUpdates : ConfigureNetworkCapture(config_updates)
    \/ GetNetworkCaptureConfig
    \/ \E request \in FilterRequests :
          /\ Len(network_requests) < MaxStore
          /\ HandleRequest(page, request)

SpecFilter == InitCapture /\ [][NextFilter]_vars

\* re.search(pattern, url) finds a match.
Matches(pattern, url) == pattern.ok /\ url \in pattern.urls

\* The condition of C12 on a request event and the configuration in force.
Admitted(url, resource_type, config) ==
    /\ config.enabled
    /\ config.include_types = {} \/ resource_type \in config.include_types
    /\ resource_type \notin config.exclude_types
    /\ \/ config.include_patterns = <<>>
       \/ \E k \in 1..Len(config.include_patterns) :
             Matches(config.include_patterns[k], url)
    /\ ~ \E k \in 1..Len(config.exclude_patterns) :
             Matches(config.exclude_patterns[k], url)

\* C12: a request event adds an entry to the store if and only if, under the
\* configuration in force, capture is enabled, its type passes include_types
\* and exclude_types, and its URL matches an include pattern (if there is
\* any) and no exclude pattern.
C12_RecordedIffAdmitted ==
    [][ret'.op = "request" =>
          (network_requests' # network_requests
             <=> Admitted(ret'.url, ret'.resource_type, request_capture_config))]_vars

\* C15: no listener callback raises, whatever the event and whatever
\* configuration configure_network_capture has installed.
C15_ListenersNeverRaise ==
    ret.op \in {"message", "request", "response"} => ~ret.raised

\* C13: configure_network_capture gives exactly the supplied fields their
\* supplied values, keeps every other field, and returns the updated
\* configuration; get_network_capture_config returns the configuration and
\* changes nothing, so that directly after a configure_network_capture it
\* returns what that call returned.
C13_ConfigureMerges ==
    [][/\ ret'.op = "configure" =>
            /\ \A k \in DOMAIN request_capture_config :
                  request_capture_config'[k] =
                      IF k \in DOMAIN ret'.updates THEN ret'.updates[k]
                      ELSE request_capture_config[k]
            /\ ret'.config = request_capture_config'
       /\ ret'.op = "getconfig" =>
            /\ ret'.config = request_capture_config
            /\ request_capture_config' = request_capture_config
            /\ ret.op = "configure" => ret'.config = ret.config]_vars

\* C13 witness: an update of two fields has been merged into a configuration
\* whose type filter had been set before.
C13_Witness ==
    /\ ret.op = "configure"
    /\ ret.updates = [enabled |-> FALSE, capture_post_data |-> FALSE]
    /\ request_capture_config.include_types = {"document"}
    /\ ~request_capture_config.enabled

\* C14: a get_network_requests(last_n) call, last_n >= 0, during which body
\* fetches failed returns a record for every stored entry, up to last_n;
\* every entry whose fetch failed has the error marker on its response, and
\* every other entry that had a body to fetch when the call was made has
\* its body or its text.
C14_FailedFetchDoesNotAbort ==
    (ret.op = "net" /\ ret.failed # {} /\ ret.last_n >= 0) =>
        /\ Len(ret.val) = Min2(ret.last_n, Len(network_requests))
        /\ \A i \in ret.failed :
              /\ i <= Len(network_requests)
              /\ network_requests[i].response.body_error
              /\ ~Pending(network_requests[i])
        /\ \A i \in ret.todo \ ret.failed :
              /\ i <= Len(network_requests)
              /\ ~Pending(network_requests[i])
              /\ network_requests[i].response.body
                    \/ network_requests[i].response.bodyText

\* C14 witness: the call has returned after the fetch of one entry failed
\* and the body of a later entry was parsed.
C14_Witness ==
    /\ ret.op = "net"
    /\ ret.last_n >= 0
    /\ Len(ret.val) >= 1
    /\ \E j \in ret.failed : \E i \in 1..Len(network_requests) :
          j < i /\ network_requests[i].response.body

----------------------------------------------------------------------------
(* open_url calls alone: no close is ever called.                          *)

NextOpen ==
    \/ \E t \in Openers : OpenUrl_Start(t)
    \/ \E t \in Openers : OpenUrl_Started(t)
    \/ \E t \in Openers : OpenUrl_Launched(t)
    \/ \E t \in Openers : OpenUrl_OldClosed(t)
    \/ \E t \in Openers : OpenUrl_PageCreated(t)
    \/ \E t \in Openers : OpenUrl_Navigated(t)
    \/ \E t \in Openers : OpenUrl_Failed(t)
    \/ \E p \in DOMAIN pageBrowser :
          /\ Len(console_logs) < MaxLifeStore
          /\ HandleConsoleMessage(p, "info", PlainText("a"))
    \/ \E last_n \in {1} : GetConsoleLogs(last_n)

SpecOpen == Init /\ [][NextOpen]_vars

\* C16: while no close is called, the engine is started at most once and the
\* browser is launched at most once: an engine handle or a browser handle
\* that the manager holds is never replaced by that of another start() or
\* launch().
C16_InitializeOnce ==
    [][/\ playwright # None => playwright' = playwright
       /\ browser # None => browser' = browser]_vars

----------------------------------------------------------------------------
(* close against a suspended navigation: an open_url call on a new manager *)
(* has registered its listeners and awaits goto(); close is called while   *)
(* it is suspended there, and the page sends events as long as it is open. *)

InitNavigating ==
    /\ playwright = 1
    /\ browser = 1
    /\ page = 1
    /\ is_initialized = TRUE
    /\ console_logs = <<>>
    /\ network_requests = <<>>
    /\ request_capture_config = DefaultConfig
    /\ clock = 0
    /\ nEngines = 1
    /\ pwLive = {1}
    /\ brLive = {1}
    /\ pageBrowser = <<1>>
    /\ pgOpen = {1}
    /\ listening = {1}
    /\ pc = [t \in Tasks |-> IF t = "o1" THEN "goto" ELSE "idle"]
    /\ loc = [t \in Tasks |-> LocInit]
    /\ ret = NoRet
    /\ quiet = FALSE

NextNavigating ==
    \/ \E t \in Openers : OpenUrl_Navigated(t)
    \/ \E t \in Closers : Close_Start(t)
    \/ \E t \in Closers : Close_PageClosed(t)
    \/ \E t \in Closers : Close_BrowserClosed(t)
    \/ \E t \in Closers : Close_Stopped(t)
    \/ \E p \in DOMAIN pageBrowser, type \in LogTypes :
          /\ Len(console_logs) < MaxLifeStore
          /\ HandleConsoleMessage(p, type, PlainText("a"))
    \/ \E p \in DOMAIN pageBrowser, request \in LifeRequests :
          /\ Len(network_requests) < MaxLifeStore
          /\ HandleRequest(p, request)
    \/ \E p \in DOMAIN pageBrowser, response \in LifeResponses :
          HandleResponse(p, response)
    \/ \E last_n \in LastNs : GetConsoleLogs(last_n)

SpecNavigating == InitNavigating /\ [][NextNavigating]_vars

\* C17: once a close() called against the suspended navigation has
\* returned, the manager holds no page, no browser and no engine handle, is
\* not initialized and has both buffers empty, and it stays so when the
\* suspended open_url call finishes or fails.
C17_CloseDuringNavigation ==
    quiet => Uninitialized

\* C17 witness: a close() that closed the page has returned while open_url
\* is still suspended in goto().
C17_Witness ==
    /\ ret.op = "close"
    /\ ret.calls
    /\ pc["o1"] = "goto"

\* The groups get_console_logs forms before it truncates.
Groups == Deduplicate(SortAsc(console_logs))

\* C18: for last_n >= 0, get_console_logs(last_n) returns min(last_n, number
\* of groups) groups in ascending order of timestamp, every group newer than
\* a returned one is returned as well, and with last_n at least the number
\* of groups it returns all the groups in their order; so last_n = 0 and an
\* empty store give an empty sequence.
C18_TruncationKeepsNewest ==
    (ret.op = "console" /\ ret.last_n >= 0) =>
        /\ Len(ret.val) = Min2(ret.last_n, Len(Groups))
        /\ Ascending(ret.val)
        /\ \A k \in 1..Len(ret.val) :
              /\ \E i \in 1..Len(Groups) : ret.val[k] = Groups[i]
              /\ Cardinality({i \in 1..Len(Groups) :
                                 Groups[i].timestamp > ret.val[k].timestamp})
                   = Cardinality({j \in 1..Len(ret.val) :
                                     ret.val[j].timestamp > ret.val[k].timestamp})
        /\ ret.last_n >= Len(Groups) => ret.val = Groups
        /\ (ret.last_n = 0 \/ console_logs = <<>>) => ret.val = <<>>

\* C18 witness: a call with fewer groups asked for than there are has left
\* out a group older than those it returned.
C18_Witness ==
    /\ ret.op = "console"
    /\ ret.last_n > 0
    /\ ret.last_n < Len(Groups)
    /\ Groups[1].timestamp < ret.val[1].timestamp

\* C19: when get_network_requests returns, no entry of the store holds the
\* handle of a response whose body is still to fetch, and no response has
\* more than one of body, bodyText and body_error.
C19_StoreResolvedOnReturn ==
    ret.op = "net" =>
        \A i \in 1..Len(network_requests) :
            LET response == network_requests[i].response
            IN /\ ~Pending(network_requests[i])
               /\ ~response.response_obj
               /\ ~(response.body /\ response.bodyText)
               /\ ~(response.body /\ response.body_error)
               /\ ~(response.bodyText /\ response.body_error)

\* C20: in every state, also at the awaits inside initialize, open_url and
\* close, is_initialized true implies that the manager holds a browser
\* handle.
C20_InitializedHasBrowser ==
    is_initialized => browser # None

----------------------------------------------------------------------------
(* Overlapping retrievals: one page is open and listened to, and two       *)
(* get_network_requests calls interleave with each other and with the      *)
(* page's events.                                                          *)

NextReaders ==
    \/ \E request \in CaptureRequests :
          /\ Len(network_requests) < MaxStore
          /\ HandleRequest(page, request)
    \/ \E response \in CaptureResponses : HandleResponse(page, response)
    \/ \E t \in ConcurrentReaders, last_n \in {MaxStore} :
          GetNetworkRequests_Start(t, last_n)
    \/ \E t \in ConcurrentReaders, outcome \in {"json", "text", "fail"} :
          GetNetworkRequests_Fetched(t, outcome)

SpecReaders == InitCapture /\ [][NextReaders]_vars

\* C21: however get_network_requests calls interleave, the body of a stored
\* response is fetched at most once: no two calls are suspended in text()
\* for the same entry of the store.
C21_BodyFetchedOnce ==
    \A t1 \in ConcurrentReaders, t2 \in ConcurrentReaders :
        (/\ t1 # t2
         /\ pc[t1] = "fetch"
         /\ pc[t2] = "fetch"
         /\ ~loc[t1].detached
         /\ ~loc[t2].detached)
        => loc[t1].i # loc[t2].i

----------------------------------------------------------------------------
(* One client session: the client awaits each open_browser, close_browser  *)
(* and get_network_requests call before it makes the next one, while the   *)
(* events of every page that is open and listened to arrive between the    *)
(* steps of the calls; the configuration is switched off and on.           *)

NoCallInProgress == \A t \in Tasks : pc[t] = "idle"

SessionUpdates ==
    {[enabled |-> FALSE], [enabled |-> TRUE], [capture_response_body |-> FALSE]}

SessionRequests == [url : {"u1"}, resource_type : {"document"}, bad : {FALSE}]
SessionResponses == [url : {"u1"}, status : {200}, json : {TRUE}, bad : {FALSE}]

NextSession ==
    \/ NoCallInProgress /\ OpenUrl_Start("o1")
    \/ OpenUrl_Started("o1")
    \/ OpenUrl_Launched("o1")
    \/ OpenUrl_OldClosed("o1")
    \/ OpenUrl_PageCreated("o1")
    \/ OpenUrl_Navigated("o1")
    \/ OpenUrl_Failed("o1")
    \/ NoCallInProgress /\ Close_Start("c1")
    \/ Close_PageClosed("c1")
    \/ Close_BrowserClosed("c1")
    \/ Close_Stopped("c1")
    \/ \E p \in DOMAIN pageBrowser :
          /\ Len(console_logs) < MaxLifeStore
          /\ HandleConsoleMessage(p, "info", PlainText("a"))
    \/ \E p \in DOMAIN pageBrowser, request \in SessionRequests :
          /\ Len(network_requests) < MaxLifeStore
          /\ HandleRequest(p, request)
    \/ \E p \in DOMAIN pageBrowser, response \in SessionResponses :
          HandleResponse(p, response)
    \/ \E config_updates \in SessionUpdates :
          ConfigureNetworkCapture(config_updates)
    \/ GetNetworkCaptureConfig
    \/ \E last_n \in {1} : GetConsoleLogs(last_n)
    \/ \E last_n \in {1} :
          NoCallInProgress /\ GetNetworkRequests_Start("r1", last_n)
    \/ \E outcome \in {"json", "fail"} : GetNetworkRequests_Fetched("r1", outcome)

SpecSession == Init /\ [][NextSession]_vars

\* C22: only configure_network_capture changes the capture configuration:
\* every step of open_url (initialize included), close, the three listener
\* callbacks, get_console_logs and get_network_requests leaves every field
\* of it as it was, so that what was configured before a close still
\* decides about the requests of the page opened afterwards.
C22_OnlyConfigureChangesConfig ==
    [][ret'.op # "configure" => request_capture_config' = request_capture_config]_vars

\* A close that made teardown calls has just returned and the configuration
\* is still the one set before it, with capture switched off and response
\* bodies not captured.
C22_Witness ==
    /\ ret.op = "close"
    /\ ret.calls
    /\ ~request_capture_config.enabled
    /\ ~request_capture_config.capture_response_body

----------------------------------------------------------------------------
(* Deduplication keeps every entry (SpecDedup).                            *)

RECURSIVE SumOfCounts(_)
SumOfCounts(groups) ==
    IF groups = <<>> THEN 0
    ELSE SumOfCounts(SubSeq(groups, 1, Len(groups) - 1)) + groups[Len(groups)].count

RECURSIVE AllTimestamps(_)
AllTimestamps(groups) ==
    IF groups = <<>> THEN <<>>
    ELSE AllTimestamps(SubSeq(groups, 1, Len(groups) - 1))
             \o groups[Len(groups)].timestamps

\* C23: when last_n is at least the number of groups, the counts of the
\* groups get_console_logs returns sum to the number of console entries in
\* the store, the timestamp list of each group has count elements, and the
\* timestamp lists of the groups, concatenated in output order, are the
\* sorted list of the timestamps of all the entries.
C23_NoEntryLostOrDuplicated ==
    (ret.op = "console" /\ ret.last_n >= Len(Groups)) =>
        /\ SumOfCounts(ret.val) = Len(console_logs)
        /\ \A k \in 1..Len(ret.val) :
              Len(ret.val[k].timestamps) = ret.val[k].count
        /\ AllTimestamps(ret.val)
             = [i \in 1..Len(console_logs) |-> SortAsc(console_logs)[i].timestamp]

\* C23 witness: a call that asked for at least as many groups as there are
\* has returned several groups, one of them standing for several entries
\* that did not all arrive at the same clock reading.
C23_Witness ==
    /\ ret.op = "console"
    /\ ret.last_n >= Len(Groups)
    /\ Len(ret.val) >= 2
    /\ \E k \in 1..Len(ret.val) :
          /\ ret.val[k].count >= 2
          /\ ret.val[k].timestamps[1] # ret.val[k].timestamps[2]

====
